---- MODULE Spec2Model ----
(***************************************************************************)
(* The asynchronous evaluation pipeline of ai-cv-evaluator: the Job/Result *)
(* store (JobsService), the producer (EvaluateService), the BullMQ         *)
(* consumer (EvaluationWorker.process) and the pipeline orchestrator       *)
(* (WorkerService.runAIPipeline), with the queue's retry policy            *)
(* (BullConfigService) and its at-least-once redelivery.                   *)
(***************************************************************************)
EXTENDS Integers, Sequences, FiniteSets, TLC

\* ------------------------------------------------------------- bounds
\* Number of Jobs the producer may create.
MaxJobs == 2
\* Number of work items put on the queue by something else than the producer.
MaxForeign == 1
\* Number of times one work item may be redelivered after a stalled lock.
MaxRedeliver == 1

\* ---------------------------------------------------- program constants
\* defaultJobOptions.attempts
Attempts == 3
\* defaultJobOptions.removeOnComplete / removeOnFail
RemoveOnComplete == TRUE
RemoveOnFail == FALSE
EVALUATION_JOB_NAME == "evaluate-job"

\* ------------------------------------------------------------- domains
\* The worker processes, each registered with concurrency 1.
Workers == {"w1", "w2"}
JobIds == 1..MaxJobs
\* A well-formed job id that names no Job row.
GhostJobId == 0
\* The falsy jobId of a payload ('' or undefined).
EmptyJobId == -1
ForeignItems == (MaxJobs + 1)..(MaxJobs + MaxForeign)
Items == JobIds \cup ForeignItems
\* The request body of the one submission whose processing is followed: jobs
\* share no state (every write is keyed by jobId), so one job shows a job's life.
SubmittedCvIds == {"cv1"}
SubmittedReportIds == {"rep1"}

\* null is <<>>, a value v is <<v>>.
Null == <<>>
Some(v) == <<v>>

\* Document ids a submission may name; the Document rows that exist.
CvDocIds == {"cv1", "cv2"}
ReportDocIds == {"rep1", "rep2", "rep3"}
Documents == {"cv1", "cv2", "rep1", "rep2"}
\* A submission request: the document ids of its body.
Requests == CvDocIds \X ReportDocIds

\* Error messages.
ErrInvalidData == "Invalid job data"
ErrUnknownName == "Unknown job name"
ErrDb == "database write failed"
ErrRecordNotFound == "Record to update not found"
ErrJobNotFound == "Job not found"
ErrMissingRelations == "Job is missing CV or Report document relations"
ErrQueryVector == "Failed to create query vector"
ErrSearch == "qdrant search failed"
ErrTx == "transaction failed"
ErrConflict == "Unique constraint failed"
ErrForeignKey == "Foreign key constraint failed"
ErrQueue == "queue unavailable"
ErrNone == ""

\* The messages of the errors fs.readFileSync and the PDF parser raise.
ErrReadFile == "ENOENT: no such file or directory"
ErrParser == "Invalid PDF structure"
ExtractErrors == {ErrReadFile, ErrParser}
ExtractOutcomes == {"ok"} \cup ExtractErrors

\* A variant that lets the error of the read or of the parser through.
ExtractTextFromPdfsRethrow(outcome) ==
    IF outcome = "ok" THEN ErrNone ELSE outcome

\* extractTextFromPdfs: the message of the error it raises, or ErrNone; its
\* catch block raises a new Error around the message of the one it caught.
ExtractTextFromPdfs(outcome) ==
    IF outcome = "ok" THEN ErrNone
    ELSE "Failed to parse PDF files: " \o outcome

\* The error of an extraction whose parser raised.
ErrPdf == ExtractTextFromPdfs(ErrParser)

VARIABLES
    jobs,      \* the Job table: JobIds -> [status, cvId, reportId]
    results,   \* the Result table, keyed by jobId (unique)
    pending,   \* jobs created by a submission that has not yet called queue.add
    items,     \* the queue: Items -> [state, name, data, attemptsMade, lock, ...]
    worker,    \* each worker process's position in process() and its locals
    gen,       \* per job: what its pipeline runs have seen of the generator
    responses, \* per request: the answer to the latest submission with that body
    collection, \* the Qdrant collection of reference chunks
    ingest     \* per process: its position in ingestGroundTruthDocuments

vars == <<jobs, results, pending, items, worker, gen, responses, collection, ingest>>

\* ------------------------------------------------------- the Job store
NoJob == [status |-> "none", cvId |-> "", reportId |-> ""]
NoResult ==
    [exists |-> FALSE, cvMatchRate |-> Null, cvFeedback |-> Null,
     projectScore |-> Null, projectFeedback |-> Null, overallSummary |-> Null]

JobExists(js, jobId) == jobId \in JobIds /\ js[jobId].status # "none"

\* A variant with the unique index on cvId only.
CreateJobConflictCvOnly(js, cvId, reportId) ==
    \E j \in JobIds :
        /\ js[j].status # "none"
        /\ js[j].cvId = cvId

\* prisma.job.create with the unique constraints on cvId and on reportId.
CreateJobConflict(js, cvId, reportId) ==
    \E j \in JobIds :
        /\ js[j].status # "none"
        /\ (js[j].cvId = cvId \/ js[j].reportId = reportId)

NextJobId(js) ==
    IF \E j \in JobIds : js[j].status = "none"
    THEN CHOOSE j \in JobIds :
            /\ js[j].status = "none"
            /\ \A k \in JobIds : js[k].status = "none" => j <= k
    ELSE GhostJobId

CreateJob(js, cvId, reportId) ==
    IF CreateJobConflict(js, cvId, reportId)
    THEN [ok |-> FALSE, error |-> ErrConflict, id |-> GhostJobId, jobs |-> js]
    ELSE IF cvId \notin Documents \/ reportId \notin Documents
    THEN [ok |-> FALSE, error |-> ErrForeignKey, id |-> GhostJobId, jobs |-> js]
    ELSE [ok |-> TRUE, error |-> ErrNone, id |-> NextJobId(js),
          jobs |-> [js EXCEPT ![NextJobId(js)] =
                      [status |-> "queued", cvId |-> cvId, reportId |-> reportId]]]

\* The nested write of updateJobStatus: the Result upsert of the 'failed' branch.
UpsertErrorResult(rs, jobId, errorMessage) ==
    [rs EXCEPT ![jobId] =
        [@ EXCEPT !.exists = TRUE,
                  !.overallSummary =
                      IF errorMessage = Null THEN Some("Unknown error")
                      ELSE errorMessage]]

\* A variant whose failed write replaces the Result row by one that holds
\* the error message only.
UpdateJobStatusClearsScores(js, rs, jobId, status, errorMessage, dbOk) ==
    IF ~dbOk
    THEN [ok |-> FALSE, error |-> ErrDb, jobs |-> js, results |-> rs]
    ELSE IF ~JobExists(js, jobId)
    THEN [ok |-> FALSE, error |-> ErrRecordNotFound, jobs |-> js, results |-> rs]
    ELSE [ok |-> TRUE, error |-> ErrNone,
          jobs |-> [js EXCEPT ![jobId].status = status],
          results |-> IF status = "failed"
                      THEN UpsertErrorResult([rs EXCEPT ![jobId] = NoResult],
                                             jobId, errorMessage)
                      ELSE rs]

\* A variant that upserts the Result row whatever the status is.
UpdateJobStatusAlwaysUpserts(js, rs, jobId, status, errorMessage, dbOk) ==
    IF ~dbOk
    THEN [ok |-> FALSE, error |-> ErrDb, jobs |-> js, results |-> rs]
    ELSE IF ~JobExists(js, jobId)
    THEN [ok |-> FALSE, error |-> ErrRecordNotFound, jobs |-> js, results |-> rs]
    ELSE [ok |-> TRUE, error |-> ErrNone,
          jobs |-> [js EXCEPT ![jobId].status = status],
          results |-> UpsertErrorResult(rs, jobId, errorMessage)]

\* A variant that resets a job to 'queued' when it is marked 'processing'.
UpdateJobStatusRequeue(js, rs, jobId, status, errorMessage, dbOk) ==
    IF ~dbOk
    THEN [ok |-> FALSE, error |-> ErrDb, jobs |-> js, results |-> rs]
    ELSE IF ~JobExists(js, jobId)
    THEN [ok |-> FALSE, error |-> ErrRecordNotFound, jobs |-> js, results |-> rs]
    ELSE [ok |-> TRUE, error |-> ErrNone,
          jobs |-> [js EXCEPT ![jobId].status =
                       IF status = "processing" THEN "queued" ELSE status],
          results |-> IF status = "failed"
                      THEN UpsertErrorResult(rs, jobId, errorMessage)
                      ELSE rs]

\* updateJobStatus: one prisma.job.update; it raises when the row is missing or
\* the database is unavailable (dbOk = FALSE), and then writes nothing.
UpdateJobStatus(js, rs, jobId, status, errorMessage, dbOk) ==
    IF ~dbOk
    THEN [ok |-> FALSE, error |-> ErrDb, jobs |-> js, results |-> rs]
    ELSE IF ~JobExists(js, jobId)
    THEN [ok |-> FALSE, error |-> ErrRecordNotFound, jobs |-> js, results |-> rs]
    ELSE [ok |-> TRUE, error |-> ErrNone,
          jobs |-> [js EXCEPT ![jobId].status = status],
          results |-> IF status = "failed"
                      THEN UpsertErrorResult(rs, jobId, errorMessage)
                      ELSE rs]

\* getJobById: the error it raises, or ErrNone.
GetJobById(js, jobId) ==
    IF ~JobExists(js, jobId) THEN ErrJobNotFound
    ELSE IF js[jobId].cvId \notin Documents \/ js[jobId].reportId \notin Documents
    THEN ErrMissingRelations
    ELSE ErrNone

\* A variant that inserts the row and so raises when one exists.
SaveEvaluationResultCreate(js, rs, jobId, data, outcome) ==
    IF \/ outcome = "failUpsert" \/ outcome = "failUpdate"
       \/ ~JobExists(js, jobId) \/ rs[jobId].exists
    THEN [ok |-> FALSE, error |-> ErrTx, jobs |-> js, results |-> rs]
    ELSE [ok |-> TRUE, error |-> ErrNone,
          jobs |-> [js EXCEPT ![jobId].status = "completed"],
          results |-> [rs EXCEPT ![jobId] =
                          [exists |-> TRUE,
                           cvMatchRate |-> Some(data.cvMatchRate),
                           cvFeedback |-> Some(data.cvFeedback),
                           projectScore |-> Some(data.projectScore),
                           projectFeedback |-> Some(data.projectFeedback),
                           overallSummary |-> Some(data.overallSummary)]]]

\* A variant whose update branch is empty: an existing row is left as it is.
UpsertFullResultCreateOnly(rs, jobId, data) ==
    IF rs[jobId].exists THEN rs
    ELSE [rs EXCEPT ![jobId] =
            [exists |-> TRUE,
             cvMatchRate |-> Some(data.cvMatchRate),
             cvFeedback |-> Some(data.cvFeedback),
             projectScore |-> Some(data.projectScore),
             projectFeedback |-> Some(data.projectFeedback),
             overallSummary |-> Some(data.overallSummary)]]

\* A variant whose update branch leaves the stored overallSummary as it is.
UpsertFullResultKeepSummary(rs, jobId, data) ==
    [rs EXCEPT ![jobId] =
        [exists |-> TRUE,
         cvMatchRate |-> Some(data.cvMatchRate),
         cvFeedback |-> Some(data.cvFeedback),
         projectScore |-> Some(data.projectScore),
         projectFeedback |-> Some(data.projectFeedback),
         overallSummary |-> IF rs[jobId].exists THEN rs[jobId].overallSummary
                            ELSE Some(data.overallSummary)]]

\* tx.result.upsert of saveEvaluationResult.
UpsertFullResult(rs, jobId, data) ==
    [rs EXCEPT ![jobId] =
        [exists |-> TRUE,
         cvMatchRate |-> Some(data.cvMatchRate),
         cvFeedback |-> Some(data.cvFeedback),
         projectScore |-> Some(data.projectScore),
         projectFeedback |-> Some(data.projectFeedback),
         overallSummary |-> Some(data.overallSummary)]]

\* A variant without the transaction: a failure of the second write leaves
\* the first one in place.
SaveEvaluationResultNoTx(js, rs, jobId, data, outcome) ==
    IF outcome = "failUpsert"
    THEN [ok |-> FALSE, error |-> ErrTx, jobs |-> js, results |-> rs]
    ELSE IF outcome = "failUpdate" \/ ~JobExists(js, jobId)
    THEN [ok |-> FALSE, error |-> ErrTx, jobs |-> js,
          results |-> IF jobId \in JobIds THEN UpsertFullResult(rs, jobId, data)
                      ELSE rs]
    ELSE [ok |-> TRUE, error |-> ErrNone,
          jobs |-> [js EXCEPT ![jobId].status = "completed"],
          results |-> UpsertFullResult(rs, jobId, data)]

\* A variant whose upsert leaves an existing Result row as it is.
SaveEvaluationResultKeepRow(js, rs, jobId, data, outcome) ==
    IF outcome = "failUpsert" \/ outcome = "failUpdate" \/ ~JobExists(js, jobId)
    THEN [ok |-> FALSE, error |-> ErrTx, jobs |-> js, results |-> rs]
    ELSE [ok |-> TRUE, error |-> ErrNone,
          jobs |-> [js EXCEPT ![jobId].status = "completed"],
          results |-> IF rs[jobId].exists THEN rs
                      ELSE UpsertFullResult(rs, jobId, data)]

\* saveEvaluationResult: the Result upsert and the Job update in one
\* transaction; outcome names the write that fails, if any.
SaveEvaluationResult(js, rs, jobId, data, outcome) ==
    IF outcome = "failUpsert" \/ outcome = "failUpdate" \/ ~JobExists(js, jobId)
    THEN [ok |-> FALSE, error |-> ErrTx, jobs |-> js, results |-> rs]
    ELSE [ok |-> TRUE, error |-> ErrNone,
          jobs |-> [js EXCEPT ![jobId].status = "completed"],
          results |-> UpsertFullResult(rs, jobId, data)]

\* ------------------------------------------------------- the generator
\* Sample answers of the model API to a scoring prompt (scores in tenths:
\* 0.8 is 8, 4 is 40). The last five are JSON objects whose fields are, in
\* turn: a score given as a string; a feedback given as a number; both of
\* these; a score of 700; and a well-formed object inside code fences (the
\* marker of three backquotes is written <fence>).
NotJson == "not json"
CvJson == "{score: 0.8, feedback: cv ok}"
ReportJson == "{score: 4, feedback: report ok}"
ScoreAsString == "{score: high, feedback: cv ok}"
FeedbackAsNumber == "{score: 0.8, feedback: 7}"
BothWrongType == "{score: high, feedback: 7}"
ScoreOutOfRange == "{score: 700, feedback: cv ok}"
FencedCvJson == "<fence>json {score: 0.8, feedback: cv ok} <fence>"

ScoringTexts ==
    {NotJson, CvJson, ReportJson, ScoreAsString, FeedbackAsNumber,
     BothWrongType, ScoreOutOfRange, FencedCvJson}

\* What the model API does with one prompt: it raises, or it answers a text.
ApiOutcomes == {"raise"} \cup ScoringTexts

\* LlmService.generateEvaluation: the text, or null when the API raised.
GenerateEvaluation(api) ==
    IF api = "raise" THEN Null ELSE Some(api)

\* A parsed JSON value: its JavaScript type, and its value if it is a number
\* (num) or a string (str).
JsNumber(n) == [type |-> "number", num |-> n, str |-> ""]
JsString(t) == [type |-> "string", num |-> 0, str |-> t]

\* The removal of the code fences and trim() of parseEvaluation, on the samples.
StripFences(text) ==
    IF text = FencedCvJson THEN CvJson ELSE text

\* JSON.parse on the samples: the object, or Null when it raises SyntaxError.
JsonParse(text) ==
    CASE text = CvJson ->
            Some([score |-> JsNumber(8), feedback |-> JsString("cv ok")])
      [] text = ReportJson ->
            Some([score |-> JsNumber(40), feedback |-> JsString("report ok")])
      [] text = ScoreAsString ->
            Some([score |-> JsString("high"), feedback |-> JsString("cv ok")])
      [] text = FeedbackAsNumber ->
            Some([score |-> JsNumber(8), feedback |-> JsNumber(7)])
      [] text = BothWrongType ->
            Some([score |-> JsString("high"), feedback |-> JsNumber(7)])
      [] text = ScoreOutOfRange ->
            Some([score |-> JsNumber(7000), feedback |-> JsString("cv ok")])
      [] OTHER -> Null

\* The feedback of the fallbacks of parseEvaluation.
NoResponseFeedback == "Failed to get valid response from LLM"
ParseFailedFeedback == "Failed to parse JSON response from LLM"
NoFeedbackProvided == "No feedback provided."

\* A variant that substitutes both fields when either has the wrong type.
ParseEvaluationWhole(jsonString, type) ==
    IF jsonString = Null
    THEN [score |-> 0, feedback |-> NoResponseFeedback]
    ELSE LET result == JsonParse(StripFences(jsonString[1])) IN
         IF result = Null
         THEN [score |-> 0, feedback |-> ParseFailedFeedback]
         ELSE IF result[1].score.type = "number" /\ result[1].feedback.type = "string"
         THEN [score |-> result[1].score.num, feedback |-> result[1].feedback.str]
         ELSE [score |-> 0, feedback |-> NoFeedbackProvided]

\* WorkerService.parseEvaluation.
ParseEvaluation(jsonString, type) ==
    IF jsonString = Null
    THEN [score |-> 0, feedback |-> NoResponseFeedback]
    ELSE LET result == JsonParse(StripFences(jsonString[1])) IN
         IF result = Null
         THEN [score |-> 0, feedback |-> ParseFailedFeedback]
         ELSE [score |-> IF result[1].score.type = "number"
                         THEN result[1].score.num ELSE 0,
               feedback |-> IF result[1].feedback.type = "string"
                            THEN result[1].feedback.str ELSE NoFeedbackProvided]

\* The string that stands in for a summary the generator did not give.
SummaryFallback == "Failed to generate summary."

\* A variant that reads the summary answer the way a scoring answer is read.
SummaryOfParsed(response) == ParseEvaluation(response, "summary").feedback

\* The summary text: generateEvaluation(summaryPrompt) ?? fallback.
SummaryOf(response) ==
    IF response = Null THEN SummaryFallback ELSE response[1]

\* A sample answer of the model API to the summary prompt.
SummaryText == "summary text"

\* RagService.queryForContext: the error it raises, or ErrNone.
RagOutcomes == {"ok", "embedFail", "searchFail"}

\* LlmService.generateEmbedding: the vector, or null when the API raised.
GenerateEmbedding(outcome) ==
    IF outcome = "embedFail" THEN Null ELSE Some("vector")

\* queryForContext in full: the error it raises and the context it returns
\* (Null when it raises).
RetrieveContext(outcome) ==
    IF GenerateEmbedding(outcome) = Null
    THEN [err |-> ErrQueryVector, context |-> Null]
    ELSE IF outcome = "searchFail"
    THEN [err |-> ErrSearch, context |-> Null]
    ELSE [err |-> ErrNone, context |-> Some("context")]

\* A variant that answers a missing query vector with an empty context.
QueryForContextSilent(outcome) ==
    IF GenerateEmbedding(outcome) = Null THEN ErrNone
    ELSE RetrieveContext(outcome).err

QueryForContext(outcome) == RetrieveContext(outcome).err

\* A variant that swaps the two evaluations.
FinalResultSwapped(cvEvaluation, reportEvaluation, summary) ==
    [cvMatchRate |-> reportEvaluation.score,
     cvFeedback |-> reportEvaluation.feedback,
     projectScore |-> cvEvaluation.score,
     projectFeedback |-> cvEvaluation.feedback,
     overallSummary |-> summary]

\* The finalResult object of runAIPipeline.
FinalResult(cvEvaluation, reportEvaluation, summary) ==
    [cvMatchRate |-> cvEvaluation.score,
     cvFeedback |-> cvEvaluation.feedback,
     projectScore |-> reportEvaluation.score,
     projectFeedback |-> reportEvaluation.feedback,
     overallSummary |-> summary]

NoFinal ==
    [cvMatchRate |-> 0, cvFeedback |-> "", projectScore |-> 0,
     projectFeedback |-> "", overallSummary |-> ""]

\* A variant in which an answer that is not JSON aborts the run.
RunStagesAbort(js, jobId, extractOk, cvRag, cvApi, reportRag, reportApi, summaryApi) ==
    IF GetJobById(js, jobId) # ErrNone
    THEN [err |-> GetJobById(js, jobId), final |-> NoFinal, calls |-> {}]
    ELSE IF ~extractOk
    THEN [err |-> ErrPdf, final |-> NoFinal, calls |-> {}]
    ELSE IF QueryForContext(cvRag) # ErrNone
    THEN [err |-> QueryForContext(cvRag), final |-> NoFinal, calls |-> {}]
    ELSE IF cvApi # "raise" /\ JsonParse(StripFences(cvApi)) = Null
    THEN [err |-> ParseFailedFeedback, final |-> NoFinal, calls |-> {cvApi}]
    ELSE IF QueryForContext(reportRag) # ErrNone
    THEN [err |-> QueryForContext(reportRag), final |-> NoFinal, calls |-> {cvApi}]
    ELSE IF reportApi # "raise" /\ JsonParse(StripFences(reportApi)) = Null
    THEN [err |-> ParseFailedFeedback, final |-> NoFinal, calls |-> {cvApi, reportApi}]
    ELSE [err |-> ErrNone,
          final |-> FinalResult(ParseEvaluation(GenerateEvaluation(cvApi), "cv"),
                                ParseEvaluation(GenerateEvaluation(reportApi), "report"),
                                SummaryOf(GenerateEvaluation(summaryApi))),
          calls |-> {cvApi, reportApi, summaryApi}]

\* runAIPipeline from getJobById to the summary, the stages in their order:
\* the error of the first stage that raises, or the finalResult; calls are
\* the generator calls made on the way.
RunStages(js, jobId, extractOk, cvRag, cvApi, reportRag, reportApi, summaryApi) ==
    IF GetJobById(js, jobId) # ErrNone
    THEN [err |-> GetJobById(js, jobId), final |-> NoFinal, calls |-> {}]
    ELSE IF ~extractOk
    THEN [err |-> ErrPdf, final |-> NoFinal, calls |-> {}]
    ELSE IF QueryForContext(cvRag) # ErrNone
    THEN [err |-> QueryForContext(cvRag), final |-> NoFinal, calls |-> {}]
    ELSE IF QueryForContext(reportRag) # ErrNone
    THEN [err |-> QueryForContext(reportRag), final |-> NoFinal, calls |-> {cvApi}]
    ELSE [err |-> ErrNone,
          final |-> FinalResult(ParseEvaluation(GenerateEvaluation(cvApi), "cv"),
                                ParseEvaluation(GenerateEvaluation(reportApi), "report"),
                                SummaryOf(GenerateEvaluation(summaryApi))),
          calls |-> {cvApi, reportApi, summaryApi}]

\* The outcomes of the external calls of one run, as far as the run gets: a
\* stage after the first one that raises is not called.
PipelineInputs ==
    {in \in [extractOk : BOOLEAN, cvRag : RagOutcomes,
              cvApi : {"raise", NotJson, CvJson},
              reportRag : RagOutcomes,
              reportApi : {"raise", NotJson, ReportJson},
              summaryApi : {"raise", SummaryText}] :
        /\ (~in.extractOk => in.cvRag = "ok")
        /\ (~in.extractOk \/ in.cvRag # "ok" => in.cvApi = "raise" /\ in.reportRag = "ok")
        /\ (~in.extractOk \/ in.cvRag # "ok" \/ in.reportRag # "ok"
                => in.reportApi = "raise" /\ in.summaryApi = "raise")}

\* Runs in which extraction and retrieval succeed, with every sample answer
\* of the model API.
ParseInputs ==
    [extractOk : {TRUE}, cvRag : {"ok"}, cvApi : ApiOutcomes,
     reportRag : {"ok"}, reportApi : ApiOutcomes,
     summaryApi : {"raise", SummaryText}]

\* What a job has seen of the generator after the calls of one more run.
GenAfter(g, calls) ==
    IF calls = {} THEN g
    ELSE IF calls # {"raise"} THEN "answered"
    ELSE IF g = "nocall" THEN "allraised" ELSE g

\* ------------------------------------------------- startup ingestion
\* The application processes that start, each running onModuleInit once.
Procs == {"p1", "p2"}

GEMINI_VECTOR_SIZE == 768
OtherVectorSize == 384

\* The .txt files of the documents directory and the chunks the splitter
\* makes of each.
DocFiles == <<"d1", "d2">>
ChunksOf(d) == IF d = "d1" THEN {"c1", "c2"} ELSE {"c3"}
Chunks == {"c1", "c2", "c3"}

\* A collection: points counts the points whose payload text is each chunk
\* (every point has its own uuid, so an upsert always adds points).
NoPoints == [c \in Chunks |-> 0]
OnePointEach == [c \in Chunks |-> 1]
AbsentCollection == [exists |-> FALSE, size |-> 0, points |-> NoPoints]
EmptyCollection == [exists |-> TRUE, size |-> GEMINI_VECTOR_SIZE, points |-> NoPoints]
MismatchedCollection == [exists |-> TRUE, size |-> OtherVectorSize, points |-> OnePointEach]
PopulatedCollection == [exists |-> TRUE, size |-> GEMINI_VECTOR_SIZE, points |-> OnePointEach]
CollectionStates ==
    {AbsentCollection, EmptyCollection, MismatchedCollection, PopulatedCollection}

RECURSIVE SumPoints(_, _)
SumPoints(pts, cs) ==
    IF cs = {} THEN 0
    ELSE LET c == CHOOSE x \in cs : TRUE IN pts[c] + SumPoints(pts, cs \ {c})

\* qdrantClient.count(COLLECTION_NAME, {exact: true}).count
CountPoints(col) == SumPoints(col.points, Chunks)

\* A process before its first call; recreated and upserts record the writes
\* it has made.
StartIngest ==
    [pc |-> "getCollections", pointsCount |-> 0, doc |-> 1,
     recreated |-> FALSE, upserts |-> 0, outcome |-> ""]

\* The catch block of ingestGroundTruthDocuments: log, do not re-throw.
IngestFailed(st) == [st EXCEPT !.pc = "done", !.outcome = "failed"]

\* A variant that ingests whatever the collection holds.
SkipIngestionNever(pointsCount, currentSize) == FALSE

\* The "only success exit": the collection has data and the expected size.
SkipIngestion(pointsCount, currentSize) ==
    pointsCount > 0 /\ currentSize = GEMINI_VECTOR_SIZE

\* getCollections() and collectionExists.
IngestGetCollections(p) ==
    /\ ingest[p].pc = "getCollections"
    /\ \E ok \in BOOLEAN :
        ingest' = [ingest EXCEPT ![p] =
            IF ~ok THEN IngestFailed(@)
            ELSE [@ EXCEPT !.pc = IF collection.exists THEN "count" ELSE "recreate"]]
    /\ UNCHANGED <<jobs, results, pending, items, worker, gen, responses, collection>>

\* count() of an existing collection, and the test pointsCount > 0.
IngestCount(p) ==
    /\ ingest[p].pc = "count"
    /\ \E ok \in BOOLEAN :
        ingest' = [ingest EXCEPT ![p] =
            IF ~ok \/ ~collection.exists THEN IngestFailed(@)
            ELSE [@ EXCEPT !.pointsCount = CountPoints(collection),
                           !.pc = IF CountPoints(collection) > 0
                                  THEN "getCollection" ELSE "recreate"]]
    /\ UNCHANGED <<jobs, results, pending, items, worker, gen, responses, collection>>

\* getCollection() and the comparison of its vector size.
IngestGetCollection(p) ==
    /\ ingest[p].pc = "getCollection"
    /\ \E ok \in BOOLEAN :
        ingest' = [ingest EXCEPT ![p] =
            IF ~ok \/ ~collection.exists THEN IngestFailed(@)
            ELSE IF SkipIngestion(ingest[p].pointsCount, collection.size)
            THEN [@ EXCEPT !.pc = "done", !.outcome = "skipped"]
            ELSE [@ EXCEPT !.pc = "recreate"]]
    /\ UNCHANGED <<jobs, results, pending, items, worker, gen, responses, collection>>

\* recreateCollection(COLLECTION_NAME, {size: 768, distance: Cosine}).
IngestRecreate(p) ==
    /\ ingest[p].pc = "recreate"
    /\ \E ok \in BOOLEAN :
        IF ok
        THEN /\ collection' = EmptyCollection
             /\ ingest' = [ingest EXCEPT ![p].pc = "ingest", ![p].recreated = TRUE]
        ELSE /\ collection' = collection
             /\ ingest' = [ingest EXCEPT ![p] = IngestFailed(@)]
    /\ UNCHANGED <<jobs, results, pending, items, worker, gen, responses>>

\* The points of an upsert added to the collection.
Upsert(col, embedded) ==
    [col EXCEPT !.points = [c \in Chunks |->
                               IF c \in embedded THEN @[c] + 1 ELSE @[c]]]

\* One turn of the loop over docFiles: split, embed each chunk (a chunk
\* whose embedding is null is left out), upsert the points if there are any;
\* after the last file the routine logs completion.
IngestDocument(p) ==
    /\ ingest[p].pc = "ingest"
    /\ \E embedded \in SUBSET ChunksOf(DocFiles[ingest[p].doc]), ok \in BOOLEAN :
        LET last == ingest[p].doc = Len(DocFiles) IN
        IF embedded = {}
        THEN /\ ok
             /\ collection' = collection
             /\ ingest' = [ingest EXCEPT
                    ![p].doc = IF last THEN @ ELSE @ + 1,
                    ![p].pc = IF last THEN "done" ELSE "ingest",
                    ![p].outcome = IF last THEN "completed" ELSE @]
        ELSE IF ok /\ collection.exists
        THEN /\ collection' = Upsert(collection, embedded)
             /\ ingest' = [ingest EXCEPT
                    ![p].upserts = @ + 1,
                    ![p].doc = IF last THEN @ ELSE @ + 1,
                    ![p].pc = IF last THEN "done" ELSE "ingest",
                    ![p].outcome = IF last THEN "completed" ELSE @]
        ELSE /\ collection' = collection
             /\ ingest' = [ingest EXCEPT ![p] = IngestFailed(@)]
    /\ UNCHANGED <<jobs, results, pending, items, worker, gen, responses>>

\* ----------------------------------------------------------- the queue
NoItem ==
    [state |-> "none", name |-> "", data |-> Null, attemptsMade |-> 0,
     lock |-> "", stalled |-> 0, delivered |-> 0, finished |-> ""]

\* The work items a foreign producer may put on the queue: <<data, name>>.
ForeignJobs ==
    {<<Null, EVALUATION_JOB_NAME>>,
     <<Some(EmptyJobId), EVALUATION_JOB_NAME>>,
     <<Some(GhostJobId), EVALUATION_JOB_NAME>>,
     <<Some(1), "other-job">>}

IdleWorker ==
    [pc |-> "idle", item |-> 0, jobId |-> GhostJobId, err |-> ErrNone,
     thrown |-> ErrNone, final |-> NoFinal]

Init ==
    /\ jobs = [j \in JobIds |-> NoJob]
    /\ results = [j \in JobIds |-> NoResult]
    /\ pending = {}
    /\ items = [i \in Items |-> NoItem]
    /\ worker = [w \in Workers |-> IdleWorker]
    /\ gen = [j \in JobIds |-> "nocall"]
    /\ responses = [q \in Requests |-> Null]
    /\ collection = PopulatedCollection
    /\ ingest = [p \in Procs |-> [StartIngest EXCEPT !.pc = "done", !.outcome = "skipped",
                                 !.pointsCount = CountPoints(PopulatedCollection)]]

\* -------------------------------------------------------- the producer
\* The Job object that createJob returned to createEvaluationJob.
NewJob(j) == [id |-> j, status |-> "queued"]

\* EvaluateController.triggerEvaluation: the body of the 202 response.
TriggerEvaluation(job) == [id |-> job.id, status |-> job.status]

\* The request that created job j.
RequestOf(j) == <<jobs[j].cvId, jobs[j].reportId>>

\* EvaluateService.createEvaluationJob, step 1: createJob.
SubmitCreateJob(cvId, reportId) ==
    LET r == CreateJob(jobs, cvId, reportId) IN
    /\ NextJobId(jobs) \in JobIds
    /\ r.ok
    /\ jobs' = r.jobs
    /\ pending' = pending \cup {r.id}
    /\ UNCHANGED <<results, items, worker, gen, responses, collection, ingest>>

\* A variant that goes on to evaluationQueue.add when createJob has raised.
SubmitRejectedEnqueues(cvId, reportId) ==
    LET r == CreateJob(jobs, cvId, reportId)
        free == {i \in Items : items[i].state = "none"} IN
    /\ ~r.ok
    /\ free # {}
    /\ jobs' = r.jobs
    /\ items' = [items EXCEPT ![CHOOSE i \in free : TRUE] =
                    [NoItem EXCEPT !.state = "waiting",
                                   !.name = EVALUATION_JOB_NAME]]
    /\ responses' = [responses EXCEPT ![<<cvId, reportId>>] = Some([error |-> r.error])]
    /\ UNCHANGED <<results, pending, worker, gen, collection, ingest>>

\* createJob raises (unique or foreign-key constraint): the request is
\* answered with the error and nothing is created or enqueued.
SubmitRejected(cvId, reportId) ==
    LET r == CreateJob(jobs, cvId, reportId) IN
    /\ ~r.ok
    /\ jobs' = r.jobs
    /\ responses' = [responses EXCEPT ![<<cvId, reportId>>] = Some([error |-> r.error])]
    /\ UNCHANGED <<results, pending, items, worker, gen, collection, ingest>>

\* A variant that enqueues the work item under another job type.
SubmitEnqueueOtherName(j) ==
    /\ j \in pending
    /\ pending' = pending \ {j}
    /\ items' = [items EXCEPT ![j] =
                    [NoItem EXCEPT !.state = "waiting",
                                   !.name = "other-job",
                                   !.data = Some(j)]]
    /\ responses' = [responses EXCEPT ![RequestOf(j)] = Some(TriggerEvaluation(NewJob(j)))]
    /\ UNCHANGED <<jobs, results, worker, gen, collection, ingest>>

\* EvaluateService.createEvaluationJob, step 2: evaluationQueue.add, and the
\* controller's response.
SubmitEnqueue(j) ==
    /\ j \in pending
    /\ pending' = pending \ {j}
    /\ items' = [items EXCEPT ![j] =
                    [NoItem EXCEPT !.state = "waiting",
                                   !.name = EVALUATION_JOB_NAME,
                                   !.data = Some(j)]]
    /\ responses' = [responses EXCEPT ![RequestOf(j)] = Some(TriggerEvaluation(NewJob(j)))]
    /\ UNCHANGED <<jobs, results, worker, gen, collection, ingest>>

\* evaluationQueue.add raises (Redis unavailable): the request is answered
\* with the error; the Job row stays.
SubmitEnqueueFails(j) ==
    /\ j \in pending
    /\ pending' = pending \ {j}
    /\ responses' = [responses EXCEPT ![RequestOf(j)] = Some([error |-> ErrQueue])]
    /\ UNCHANGED <<jobs, results, items, worker, gen, collection, ingest>>

\* A work item that did not come from createEvaluationJob.
ForeignEnqueue(i, job) ==
    /\ i \in ForeignItems
    /\ items[i].state = "none"
    /\ items' = [items EXCEPT ![i] =
                    [NoItem EXCEPT !.state = "waiting", !.name = job[2], !.data = job[1]]]
    /\ UNCHANGED <<jobs, results, pending, worker, gen, responses, collection, ingest>>

\* A variant that hands a worker an item while it is still busy.
DeliverWhileBusy(w, i) ==
    /\ items[i].state = "waiting"
    /\ items' = [items EXCEPT ![i].state = "active", ![i].lock = w,
                              ![i].delivered = @ + 1]
    /\ worker' = [worker EXCEPT ![w] = [IdleWorker EXCEPT !.pc = "process", !.item = i]]
    /\ UNCHANGED <<jobs, results, pending, gen, responses, collection, ingest>>

\* -------------------------------------------------------- the consumer
\* The queue hands a waiting work item to an idle worker (concurrency 1).
Deliver(w, i) ==
    /\ worker[w].pc = "idle"
    /\ items[i].state = "waiting"
    /\ items' = [items EXCEPT ![i].state = "active", ![i].lock = w,
                              ![i].delivered = @ + 1]
    /\ worker' = [worker EXCEPT ![w] = [IdleWorker EXCEPT !.pc = "process", !.item = i]]
    /\ UNCHANGED <<jobs, results, pending, gen, responses, collection, ingest>>

\* The lock of an active work item expires and the queue puts the item back
\* to waiting, while the worker that held it goes on (at-least-once delivery).
Redeliver(i) ==
    /\ items[i].state = "active"
    /\ items[i].stalled < MaxRedeliver
    /\ items' = [items EXCEPT ![i].state = "waiting", ![i].lock = "",
                              ![i].stalled = @ + 1]
    /\ UNCHANGED <<jobs, results, pending, worker, gen, responses, collection, ingest>>

\* Whether process() rejects the payload.
InvalidData(data) == data = Null \/ data[1] = EmptyJobId

\* A variant that marks the Job failed when it rejects an unknown job name.
ProcessStartMarksFailed(w) ==
    LET it == items[worker[w].item] IN
    /\ worker[w].pc = "process"
    /\ IF InvalidData(it.data)
       THEN /\ worker' = [worker EXCEPT ![w].pc = "raised", ![w].thrown = ErrInvalidData]
            /\ UNCHANGED <<jobs, results>>
       ELSE IF it.name # EVALUATION_JOB_NAME
       THEN LET r == UpdateJobStatus(jobs, results, it.data[1], "failed",
                                     Some(ErrUnknownName), TRUE) IN
            /\ jobs' = r.jobs
            /\ results' = r.results
            /\ worker' = [worker EXCEPT ![w].pc = "raised", ![w].jobId = it.data[1],
                                        ![w].thrown = ErrUnknownName]
       ELSE \E dbOk \in BOOLEAN :
            LET r == UpdateJobStatus(jobs, results, it.data[1], "processing", Null, dbOk) IN
            /\ jobs' = r.jobs
            /\ results' = r.results
            /\ worker' = [worker EXCEPT ![w].jobId = it.data[1],
                                        ![w].pc = IF r.ok THEN "pipeline" ELSE "catch",
                                        ![w].err = r.error]
    /\ UNCHANGED <<pending, items, gen, responses, collection, ingest>>

\* process(), up to and including updateJobStatus(jobId, 'processing').
ProcessStart(w) ==
    LET it == items[worker[w].item] IN
    /\ worker[w].pc = "process"
    /\ IF InvalidData(it.data)
       THEN /\ worker' = [worker EXCEPT ![w].pc = "raised", ![w].thrown = ErrInvalidData]
            /\ UNCHANGED <<jobs, results>>
       ELSE IF it.name # EVALUATION_JOB_NAME
       THEN /\ worker' = [worker EXCEPT ![w].pc = "raised", ![w].jobId = it.data[1],
                                        ![w].thrown = ErrUnknownName]
            /\ UNCHANGED <<jobs, results>>
       ELSE \E dbOk \in BOOLEAN :
            LET r == UpdateJobStatus(jobs, results, it.data[1], "processing", Null, dbOk) IN
            /\ jobs' = r.jobs
            /\ results' = r.results
            /\ worker' = [worker EXCEPT ![w].jobId = it.data[1],
                                        ![w].pc = IF r.ok THEN "pipeline" ELSE "catch",
                                        ![w].err = r.error]
    /\ UNCHANGED <<pending, items, gen, responses, collection, ingest>>

\* A variant that stores the CV evaluation as soon as it has it.
PipelineWritesEarly(w, in) ==
    /\ worker[w].pc = "pipeline"
    /\ LET r == RunStages(jobs, worker[w].jobId, in.extractOk, in.cvRag, in.cvApi,
                           in.reportRag, in.reportApi, in.summaryApi)
           cv == ParseEvaluation(GenerateEvaluation(in.cvApi), "cv") IN
        /\ worker' = [worker EXCEPT ![w].pc = IF r.err = ErrNone THEN "save" ELSE "catch",
                                    ![w].err = r.err,
                                    ![w].final = r.final]
        /\ gen' = IF worker[w].jobId \in JobIds
                  THEN [gen EXCEPT ![worker[w].jobId] = GenAfter(@, r.calls)]
                  ELSE gen
        /\ results' = IF r.calls # {} /\ worker[w].jobId \in JobIds
                      THEN [results EXCEPT ![worker[w].jobId].exists = TRUE,
                                           ![worker[w].jobId].cvMatchRate = Some(cv.score),
                                           ![worker[w].jobId].cvFeedback = Some(cv.feedback)]
                      ELSE results
    /\ UNCHANGED <<jobs, pending, items, responses, collection, ingest>>

\* runAIPipeline, steps 1 to 6: everything before saveEvaluationResult.
Pipeline(w, in) ==
    /\ worker[w].pc = "pipeline"
    /\  \* in: the outcomes of the run's external calls
        LET r == RunStages(jobs, worker[w].jobId, in.extractOk, in.cvRag, in.cvApi,
                           in.reportRag, in.reportApi, in.summaryApi) IN
        /\ worker' = [worker EXCEPT ![w].pc = IF r.err = ErrNone THEN "save" ELSE "catch",
                                    ![w].err = r.err,
                                    ![w].final = r.final]
        /\ gen' = IF worker[w].jobId \in JobIds
                  THEN [gen EXCEPT ![worker[w].jobId] = GenAfter(@, r.calls)]
                  ELSE gen
    /\ UNCHANGED <<jobs, results, pending, items, responses, collection, ingest>>

SaveOutcomes == {"ok", "failUpsert", "failUpdate"}

\* runAIPipeline step 7: saveEvaluationResult, then return to process().
Save(w) ==
    /\ worker[w].pc = "save"
    /\ \E o \in SaveOutcomes :
        LET r == SaveEvaluationResult(jobs, results, worker[w].jobId,
                                      worker[w].final, o) IN
        /\ jobs' = r.jobs
        /\ results' = r.results
        /\ worker' = [worker EXCEPT ![w].pc = IF r.ok THEN "returned" ELSE "catch",
                                    ![w].err = r.error,
                                    ![w].final = NoFinal]
    /\ UNCHANGED <<pending, items, gen, responses, collection, ingest>>

\* The error that leaves the catch block of process().
CatchThrown(err, r) == IF r.ok THEN err ELSE r.error

\* The catch block of process(): updateJobStatus(jobId, 'failed', error.message)
\* and then throw error.
Catch(w) ==
    /\ worker[w].pc = "catch"
    /\ \E dbOk \in BOOLEAN :
        LET r == UpdateJobStatus(jobs, results, worker[w].jobId, "failed",
                                 Some(worker[w].err), dbOk) IN
        /\ jobs' = r.jobs
        /\ results' = r.results
        /\ worker' = [worker EXCEPT ![w].pc = "raised",
                                    ![w].thrown = CatchThrown(worker[w].err, r)]
    /\ UNCHANGED <<pending, items, gen, responses, collection, ingest>>

\* A variant that allows one attempt too many.
FinishItemOneMore(it, raised) ==
    IF ~raised
    THEN [it EXCEPT !.state = IF RemoveOnComplete THEN "removed" ELSE "completed",
                    !.lock = "", !.finished = "completed"]
    ELSE IF it.attemptsMade + 1 <= Attempts
    THEN [it EXCEPT !.state = "waiting", !.lock = "", !.attemptsMade = @ + 1]
    ELSE [it EXCEPT !.state = IF RemoveOnFail THEN "removed" ELSE "failed",
                    !.lock = "", !.attemptsMade = @ + 1, !.finished = "failed"]

\* The queue's bookkeeping when process() has returned or raised, for a worker
\* that still holds the item's lock.
FinishItem(it, raised) ==
    IF ~raised
    THEN [it EXCEPT !.state = IF RemoveOnComplete THEN "removed" ELSE "completed",
                    !.lock = "", !.finished = "completed"]
    ELSE IF it.attemptsMade + 1 < Attempts
    THEN [it EXCEPT !.state = "waiting", !.lock = "", !.attemptsMade = @ + 1]
    ELSE [it EXCEPT !.state = IF RemoveOnFail THEN "removed" ELSE "failed",
                    !.lock = "", !.attemptsMade = @ + 1, !.finished = "failed"]

\* process() has ended: the queue records the attempt and the worker is free.
\* A worker whose lock was lost cannot move the item.
Finish(w) ==
    LET i == worker[w].item IN
    /\ worker[w].pc \in {"returned", "raised"}
    /\ items' = IF items[i].state = "active" /\ items[i].lock = w
                THEN [items EXCEPT ![i] = FinishItem(@, worker[w].pc = "raised")]
                ELSE items
    /\ worker' = [worker EXCEPT ![w] = IdleWorker]
    /\ UNCHANGED <<jobs, results, pending, gen, responses, collection, ingest>>

\* The pipeline: submissions by EvaluateService, consumed by the workers.
Next ==
    \/ \E c \in SubmittedCvIds, r \in SubmittedReportIds : SubmitCreateJob(c, r)
    \/ \E j \in JobIds : SubmitEnqueue(j)
    \/ \E j \in JobIds : SubmitEnqueueFails(j)
    \/ \E w \in Workers, i \in JobIds : Deliver(w, i)
    \/ \E i \in JobIds : Redeliver(i)
    \/ \E w \in Workers : ProcessStart(w)
    \/ \E w \in Workers, in \in PipelineInputs : Pipeline(w, in)
    \/ \E w \in Workers : Save(w)
    \/ \E w \in Workers : Catch(w)
    \/ \E w \in Workers : Finish(w)

Spec == Init /\ [][Next]_vars

\* Work items of a foreign producer: none of them names a Job row, so
\* process() ends before runAIPipeline or in its catch block.
NextForeign ==
    \/ \E i \in ForeignItems, job \in ForeignJobs : ForeignEnqueue(i, job)
    \/ \E w \in Workers, i \in ForeignItems : Deliver(w, i)
    \/ \E i \in ForeignItems : Redeliver(i)
    \/ \E w \in Workers : ProcessStart(w)
    \/ \E w \in Workers : Catch(w)
    \/ \E w \in Workers : Finish(w)

SpecForeign == Init /\ [][NextForeign]_vars

\* Submissions alone, with every request body.
NextSubmit ==
    \/ \E c \in CvDocIds, r \in ReportDocIds : SubmitCreateJob(c, r)
    \/ \E c \in CvDocIds, r \in ReportDocIds : SubmitRejected(c, r)
    \/ \E j \in JobIds : SubmitEnqueue(j)
    \/ \E j \in JobIds : SubmitEnqueueFails(j)

SpecSubmit == Init /\ [][NextSubmit]_vars

\* One worker and one job, with every sample answer of the model API.
NextParse ==
    \/ \E c \in SubmittedCvIds, r \in SubmittedReportIds : SubmitCreateJob(c, r)
    \/ \E j \in JobIds : SubmitEnqueue(j)
    \/ \E i \in JobIds : Deliver("w1", i)
    \/ ProcessStart("w1")
    \/ \E in \in ParseInputs : Pipeline("w1", in)
    \/ Save("w1")
    \/ Catch("w1")
    \/ Finish("w1")

SpecParse == Init /\ [][NextParse]_vars

\* Processes starting against a collection in any of its states.
InitIngest ==
    /\ jobs = [j \in JobIds |-> NoJob]
    /\ results = [j \in JobIds |-> NoResult]
    /\ pending = {}
    /\ items = [i \in Items |-> NoItem]
    /\ worker = [w \in Workers |-> IdleWorker]
    /\ gen = [j \in JobIds |-> "nocall"]
    /\ responses = [q \in Requests |-> Null]
    /\ collection \in CollectionStates
    /\ ingest = [p \in Procs |-> StartIngest]

NextIngest ==
    \/ \E p \in Procs : IngestGetCollections(p)
    \/ \E p \in Procs : IngestCount(p)
    \/ \E p \in Procs : IngestGetCollection(p)
    \/ \E p \in Procs : IngestRecreate(p)
    \/ \E p \in Procs : IngestDocument(p)

SpecIngest == InitIngest /\ [][NextIngest]_vars

\* ------------------------------------------- the pipeline stage by stage
\* runAIPipeline with one step per awaited stage; the worker's final holds
\* cvEvaluation and reportEvaluation as soon as they exist.
\* A variant that asks for the summary before the report is evaluated.
NextStageSummaryEarly(stage) ==
    CASE stage = "pipeline" -> "extract"
      [] stage = "extract" -> "cvEval"
      [] stage = "cvEval" -> "summary"
      [] stage = "summary" -> "reportEval"
      [] stage = "reportEval" -> "save"

\* The statement that follows each stage when it does not raise.
NextStage(stage) ==
    CASE stage = "pipeline" -> "extract"
      [] stage = "extract" -> "cvEval"
      [] stage = "cvEval" -> "reportEval"
      [] stage = "reportEval" -> "summary"
      [] stage = "summary" -> "save"

\* A stage raises: runAIPipeline logs and re-throws to process().
StageRaises(w, err) ==
    worker' = [worker EXCEPT ![w].pc = "catch", ![w].err = err, ![w].final = NoFinal]

\* 1. getJobById.
StageLoad(w) ==
    /\ worker[w].pc = "pipeline"
    /\ IF GetJobById(jobs, worker[w].jobId) # ErrNone
       THEN StageRaises(w, GetJobById(jobs, worker[w].jobId))
       ELSE worker' = [worker EXCEPT ![w].pc = NextStage("pipeline")]
    /\ UNCHANGED <<jobs, results, pending, items, gen, responses, collection, ingest>>

\* 2. extractTextFromPdfs.
StageExtract(w) ==
    /\ worker[w].pc = "extract"
    /\ \E outcome \in ExtractOutcomes :
        IF ExtractTextFromPdfs(outcome) # ErrNone
        THEN StageRaises(w, ExtractTextFromPdfs(outcome))
        ELSE worker' = [worker EXCEPT ![w].pc = NextStage("extract")]
    /\ UNCHANGED <<jobs, results, pending, items, gen, responses, collection, ingest>>

\* 3. queryForContext, generateEvaluation and parseEvaluation for the CV.
StageCv(w) ==
    /\ worker[w].pc = "cvEval"
    /\ \E cvRag \in RagOutcomes, cvApi \in ApiOutcomes :
        IF QueryForContext(cvRag) # ErrNone
        THEN /\ StageRaises(w, QueryForContext(cvRag))
             /\ gen' = gen
        ELSE LET cvEvaluation == ParseEvaluation(GenerateEvaluation(cvApi), "cv") IN
             /\ worker' = [worker EXCEPT
                    ![w].pc = NextStage("cvEval"),
                    ![w].final.cvMatchRate = cvEvaluation.score,
                    ![w].final.cvFeedback = cvEvaluation.feedback]
             /\ gen' = [gen EXCEPT ![worker[w].jobId] = GenAfter(@, {cvApi})]
    /\ UNCHANGED <<jobs, results, pending, items, responses, collection, ingest>>

\* 4. The same for the project report.
StageReport(w) ==
    /\ worker[w].pc = "reportEval"
    /\ \E reportRag \in RagOutcomes, reportApi \in ApiOutcomes :
        IF QueryForContext(reportRag) # ErrNone
        THEN /\ StageRaises(w, QueryForContext(reportRag))
             /\ gen' = gen
        ELSE LET reportEvaluation ==
                     ParseEvaluation(GenerateEvaluation(reportApi), "report") IN
             /\ worker' = [worker EXCEPT
                    ![w].pc = NextStage("reportEval"),
                    ![w].final.projectScore = reportEvaluation.score,
                    ![w].final.projectFeedback = reportEvaluation.feedback]
             /\ gen' = [gen EXCEPT ![worker[w].jobId] = GenAfter(@, {reportApi})]
    /\ UNCHANGED <<jobs, results, pending, items, responses, collection, ingest>>

\* 5 and 6. The summary and the finalResult object.
StageSummary(w) ==
    /\ worker[w].pc = "summary"
    /\ \E summaryApi \in {"raise", SummaryText} :
        /\ worker' = [worker EXCEPT
               ![w].pc = NextStage("summary"),
               ![w].final = FinalResult(
                   [score |-> @.cvMatchRate, feedback |-> @.cvFeedback],
                   [score |-> @.projectScore, feedback |-> @.projectFeedback],
                   SummaryOf(GenerateEvaluation(summaryApi)))]
        /\ gen' = [gen EXCEPT ![worker[w].jobId] = GenAfter(@, {summaryApi})]
    /\ UNCHANGED <<jobs, results, pending, items, responses, collection, ingest>>

\* One worker and one job, the pipeline taken one stage at a time.
NextStages ==
    \/ \E c \in SubmittedCvIds, r \in SubmittedReportIds : SubmitCreateJob(c, r)
    \/ \E j \in JobIds : SubmitEnqueue(j)
    \/ \E i \in JobIds : Deliver("w1", i)
    \/ ProcessStart("w1")
    \/ StageLoad("w1")
    \/ StageExtract("w1")
    \/ StageCv("w1")
    \/ StageReport("w1")
    \/ StageSummary("w1")
    \/ Save("w1")
    \/ Catch("w1")
    \/ Finish("w1")

SpecStages == Init /\ [][NextStages]_vars

\* The runs in which extraction fails, and the run in which every call succeeds.
TwoJobsInputs ==
    {in \in PipelineInputs :
        \/ ~in.extractOk
        \/ /\ in.cvRag = "ok" /\ in.cvApi = CvJson
           /\ in.reportRag = "ok" /\ in.reportApi = ReportJson
           /\ in.summaryApi = SummaryText}

\* One worker and the work items of two jobs.
NextTwoJobs ==
    \/ \E c \in CvDocIds : SubmitCreateJob(c, IF c = "cv1" THEN "rep1" ELSE "rep2")
    \/ \E j \in JobIds : SubmitEnqueue(j)
    \/ \E i \in JobIds : Deliver("w1", i)
    \/ ProcessStart("w1")
    \/ \E in \in TwoJobsInputs : Pipeline("w1", in)
    \/ Save("w1")
    \/ Catch("w1")
    \/ Finish("w1")

SpecTwoJobs == Init /\ [][NextTwoJobs]_vars

\* One worker and one job, with the scheduling of the queue library: a
\* waiting item is eventually handed to the idle worker, and every awaited
\* call of process() eventually returns or raises.
NextLive ==
    \/ \E c \in SubmittedCvIds, r \in SubmittedReportIds : SubmitCreateJob(c, r)
    \/ \E j \in JobIds : SubmitEnqueue(j)
    \/ \E i \in JobIds : Deliver("w1", i)
    \/ ProcessStart("w1")
    \/ \E in \in PipelineInputs : Pipeline("w1", in)
    \/ Save("w1")
    \/ Catch("w1")
    \/ Finish("w1")

ConsumerFairness ==
    /\ WF_vars(\E i \in JobIds : Deliver("w1", i))
    /\ WF_vars(ProcessStart("w1"))
    /\ WF_vars(\E in \in PipelineInputs : Pipeline("w1", in))
    /\ WF_vars(Save("w1"))
    /\ WF_vars(Catch("w1"))
    /\ WF_vars(Finish("w1"))

SpecLive == Init /\ [][NextLive]_vars /\ ConsumerFairness

\* One worker, the work item of one submission, and a work item of a
\* foreign producer, which may name the submitted Job.
NextMixed ==
    \/ \E c \in SubmittedCvIds, r \in SubmittedReportIds : SubmitCreateJob(c, r)
    \/ \E j \in JobIds : SubmitEnqueue(j)
    \/ \E i \in ForeignItems, job \in ForeignJobs : ForeignEnqueue(i, job)
    \/ \E i \in Items : Deliver("w1", i)
    \/ ProcessStart("w1")
    \/ \E in \in TwoJobsInputs : Pipeline("w1", in)
    \/ Save("w1")
    \/ Catch("w1")
    \/ Finish("w1")

SpecMixed == Init /\ [][NextMixed]_vars

\* ---------------------------------------------------------- properties
\* A Result whose scores and feedbacks are all set.
FullResult(r) ==
    /\ r.exists
    /\ r.cvMatchRate # Null /\ r.cvFeedback # Null
    /\ r.projectScore # Null /\ r.projectFeedback # Null

\* A Result that holds an overallSummary and nothing else.
ErrorOnlyResult(r) ==
    /\ r.exists
    /\ r.overallSummary # Null
    /\ r.cvMatchRate = Null /\ r.cvFeedback = Null
    /\ r.projectScore = Null /\ r.projectFeedback = Null

\* Deliveries of an item that the retry policy made (not lock-expiry ones).
PolicyDeliveries(it) == it.delivered - it.stalled

AllowedTransitions ==
    {<<"none", "queued">>, <<"queued", "processing">>,
     <<"processing", "completed">>, <<"processing", "failed">>,
     <<"failed", "processing">>}

\* C1: a Job's status changes only along queued -> processing ->
\* {completed | failed}, with failed -> processing on redelivery; completed is
\* never overwritten.
C1_StatusMachine ==
    [][\A j \in JobIds :
          jobs'[j].status # jobs[j].status
              => <<jobs[j].status, jobs'[j].status>> \in AllowedTransitions]_vars

\* C2: once a Job exists, no step sets its status to queued again.
C2_NeverBackToQueued ==
    [][\A j \in JobIds :
          jobs[j].status \notin {"none", "queued"} => jobs'[j].status # "queued"]_vars

\* A retry after a failed attempt has re-marked the job processing.
C2_Witness ==
    \E j \in JobIds :
        /\ jobs[j].status = "processing"
        /\ items[j].attemptsMade >= 1
        /\ ErrorOnlyResult(results[j])

\* The step of worker w that runs saveEvaluationResult.
SaveStep(w) == worker[w].pc = "save" /\ worker'[w].pc # "save"

\* C3: saveEvaluationResult writes the Result and marks the Job completed
\* together or not at all: a completed Job always has its full Result, and a
\* save step either does both writes or, when it raises, leaves both tables
\* as they were.
C3_AtomicSave ==
    /\ [](\A j \in JobIds : jobs[j].status = "completed" => FullResult(results[j]))
    /\ [][\A w \in Workers :
             SaveStep(w) =>
                LET j == worker[w].jobId IN
                \/ /\ worker'[w].pc = "returned"
                   /\ jobs'[j].status = "completed"
                   /\ results' = UpsertFullResult(results, j, worker[w].final)
                \/ /\ worker'[w].pc = "catch"
                   /\ jobs' = jobs
                   /\ results' = results]_vars

\* A save has raised and the job has neither a Result nor the completed status.
C3_Witness ==
    \E w \in Workers :
        /\ worker[w].pc = "catch"
        /\ worker[w].err = ErrTx
        /\ jobs[worker[w].jobId].status = "processing"
        /\ ~results[worker[w].jobId].exists

\* C4: a Result with all scores and feedbacks set belongs to a completed Job.
C4_FullResultImpliesCompleted ==
    \A j \in JobIds : FullResult(results[j]) => jobs[j].status = "completed"

C6_RetryExhaustion ==
    \A j \in JobIds :
        gen[j] = "allraised" =>
            /\ jobs[j].status # "completed"
            /\ items[j].finished # "completed"
            /\ items[j].state \notin {"waiting", "active"} =>
                  /\ items[j].state = "failed"
                  /\ items[j].attemptsMade = Attempts
                  /\ jobs[j].status = "failed"
                  /\ results[j].overallSummary \notin
                        {Null, Some(SummaryOf(Null)), Some(SummaryOf(Some(SummaryText)))}

\* C7: the catch block writes status failed with the error's message as
\* overallSummary and then raises the original error, in every case.
C7_FailedRecordedThenRethrown ==
    [][\A w \in Workers :
          (worker[w].pc = "catch" /\ worker'[w].pc = "raised") =>
              /\ worker'[w].thrown = worker[w].err
              /\ worker[w].jobId \in JobIds =>
                    /\ jobs'[worker[w].jobId].status = "failed"
                    /\ results'[worker[w].jobId].overallSummary
                          = Some(worker[w].err)]_vars

\* The step in which the queue records the end of w's attempt, w holding the lock.
FinishStep(w) ==
    /\ worker[w].pc \in {"returned", "raised"}
    /\ worker'[w].pc = "idle"
    /\ items[worker[w].item].state = "active"
    /\ items[worker[w].item].lock = w

\* C8: the retry policy delivers a work item at most 3 times; the third failed
\* attempt leaves the item retained as failed; a successful attempt removes
\* it; a failed or removed item is never attempted again.
C8_RetryPolicy ==
    /\ [](\A i \in Items :
            /\ items[i].attemptsMade <= Attempts
            /\ PolicyDeliveries(items[i]) <= Attempts
            /\ items[i].state = "failed" => items[i].attemptsMade = Attempts)
    /\ [][\A w \in Workers :
             FinishStep(w) =>
                LET i == worker[w].item IN
                /\ worker[w].pc = "returned" => items'[i].state = "removed"
                /\ (worker[w].pc = "raised" /\ items[i].attemptsMade = Attempts - 1)
                      => items'[i].state = "failed"
                /\ (worker[w].pc = "raised" /\ items[i].attemptsMade < Attempts - 1)
                      => items'[i].state = "waiting"]_vars
    /\ [][\A i \in Items :
             items[i].state \in {"failed", "removed"} => items'[i] = items[i]]_vars

\* A work item is retained as failed after its third attempt.
C8_Witness ==
    \E i \in Items :
        /\ items[i].state = "failed"
        /\ items[i].attemptsMade = Attempts
        /\ PolicyDeliveries(items[i]) = Attempts

\* C9: a work item without data or with an empty jobId is attempted once and
\* fails permanently.
C9_InvalidPayloadNotRetried ==
    \A i \in Items :
        (items[i].state # "none" /\ InvalidData(items[i].data)) =>
            /\ PolicyDeliveries(items[i]) <= 1
            /\ items[i].attemptsMade >= 1 => items[i].state = "failed"

\* Whether the work item names a job on which getJobById raises.
PermanentStage1(it) ==
    /\ it.state # "none"
    /\ ~InvalidData(it.data)
    /\ it.name = EVALUATION_JOB_NAME
    /\ GetJobById(jobs, it.data[1]) # ErrNone

\* C10: a work item whose job is missing, or lacks a Document relation, is
\* attempted once: its first failure is final and the Job, if there is one,
\* is failed.
C10_PermanentErrorNotRetried ==
    \A i \in Items :
        PermanentStage1(items[i]) =>
            /\ PolicyDeliveries(items[i]) <= 1
            /\ items[i].attemptsMade >= 1 => items[i].state = "failed"

\* The messages of the errors an attempt can raise.
ErrorMessages ==
    {ErrInvalidData, ErrUnknownName, ErrDb, ErrRecordNotFound, ErrJobNotFound,
     ErrMissingRelations, ErrPdf, ExtractTextFromPdfs(ErrReadFile),
     ErrQueryVector, ErrSearch, ErrTx}

\* C11: whenever the final attempt of a job's work item has failed, the Job is
\* failed and its Result.overallSummary holds an error message.
C11_TerminalFailureRecorded ==
    \A j \in JobIds :
        items[j].state = "failed" =>
            /\ jobs[j].status = "failed"
            /\ \E e \in ErrorMessages : results[j].overallSummary = Some(e)

\* ---------------------------------------------------------- polling
\* The result object of the polling response.
ResultBody(result) ==
    [cv_match_rate |-> result.cvMatchRate,
     cv_feedback |-> result.cvFeedback,
     project_score |-> result.projectScore,
     project_feedback |-> result.projectFeedback,
     overall_summary |-> result.overallSummary]

\* A variant that also returns the result object of a failed job.
FormatResultFailedToo(id, job, result) ==
    IF job.status \notin {"completed", "failed"} \/ ~result.exists
    THEN [id |-> id, status |-> job.status]
    ELSE [id |-> id, status |-> job.status, result |-> ResultBody(result)]

\* A variant that returns the result object whenever a Result row exists.
FormatResultAnyRow(id, job, result) ==
    IF ~result.exists
    THEN [id |-> id, status |-> job.status]
    ELSE [id |-> id, status |-> job.status, result |-> ResultBody(result)]

\* ResultService.formatResult.
FormatResult(id, job, result) ==
    IF job.status # "completed" \/ ~result.exists
    THEN [id |-> id, status |-> job.status]
    ELSE [id |-> id, status |-> job.status, result |-> ResultBody(result)]

\* The answer to a request for a job that does not exist.
NotFound == [statusCode |-> 404]

\* ResultService.getJobResult on the present tables: what a poller reads now.
GetJobResult(jobId) ==
    IF ~JobExists(jobs, jobId) THEN NotFound
    ELSE FormatResult(jobId, jobs[jobId], results[jobId])

\* A failed attempt of job j's work item is over and the next one is to come.
BetweenAttempts(j) ==
    /\ items[j].state = "waiting"
    /\ items[j].attemptsMade >= 1
    /\ \A w \in Workers : worker[w].item # j \/ worker[w].pc = "idle"

\* C12: between a failed attempt and the next one a poller reads status
\* processing; it reads failed only when the retries are exhausted or the
\* error is a permanent one.
C12_ProcessingDuringRetries ==
    \A j \in JobIds :
        /\ BetweenAttempts(j) => GetJobResult(j).status = "processing"
        /\ (JobExists(jobs, j) /\ GetJobResult(j).status = "failed") =>
              items[j].state = "failed" \/ PermanentStage1(items[j])

\* C13 as stated: the response for a failed job carries the last recorded
\* error text as overall_summary.
C13_FailedPollShowsError ==
    \A j \in JobIds :
        jobs[j].status = "failed" =>
            /\ "result" \in DOMAIN GetJobResult(j)
            /\ GetJobResult(j).result.overall_summary = results[j].overallSummary

\* C13 amended: the response for a failed job is {id, status: failed} and
\* nothing else; the error text of the last failed attempt is in the stored
\* Result.overallSummary only.
C13_FailedPollStatusOnly ==
    \A j \in JobIds :
        jobs[j].status = "failed" =>
            /\ GetJobResult(j) = [id |-> j, status |-> "failed"]
            /\ \E e \in ErrorMessages : results[j].overallSummary = Some(e)

\* A job is failed after its work item's last attempt.
C13_Witness ==
    \E j \in JobIds :
        /\ jobs[j].status = "failed"
        /\ items[j].state = "failed"
        /\ results[j].overallSummary # Null
        /\ DOMAIN GetJobResult(j) = {"id", "status"}

\* C14: the response has the result key exactly when the job is completed:
\* {id, status} for queued, processing and failed, whether or not a Result row
\* exists; for completed, the five fields copied from the Result.
C14_ResultKeyIffCompleted ==
    \A j \in JobIds :
        JobExists(jobs, j) =>
            /\ jobs[j].status # "completed" =>
                  GetJobResult(j) = [id |-> j, status |-> jobs[j].status]
            /\ jobs[j].status = "completed" =>
                  GetJobResult(j) =
                      [id |-> j, status |-> "completed",
                       result |-> [cv_match_rate |-> results[j].cvMatchRate,
                                   cv_feedback |-> results[j].cvFeedback,
                                   project_score |-> results[j].projectScore,
                                   project_feedback |-> results[j].projectFeedback,
                                   overall_summary |-> results[j].overallSummary]]

\* A job that is not completed has a Result row, and the response leaves it out.
C14_Witness ==
    \E j \in JobIds :
        /\ jobs[j].status = "processing"
        /\ results[j].exists
        /\ "result" \notin DOMAIN GetJobResult(j)

\* C15: a submission creates the Job with status queued and then enqueues the
\* work item {jobId} under 'evaluate-job': every work item of a submission
\* names a Job that exists, and the response is {id, status: queued} without
\* a result.
C15_SubmitThenEnqueue ==
    /\ [](\A j \in JobIds :
            items[j].state # "none" =>
                /\ JobExists(jobs, j)
                /\ items[j].name = EVALUATION_JOB_NAME
                /\ items[j].data = Some(j))
    /\ [](\A q \in Requests :
            (responses[q] # Null /\ "id" \in DOMAIN responses[q][1]) =>
                \E j \in JobIds :
                    /\ responses[q] = Some([id |-> j, status |-> "queued"])
                    /\ RequestOf(j) = q
                    /\ items[j].state # "none")
    /\ [][\A j \in JobIds :
             /\ (jobs[j].status = "none" /\ jobs'[j].status # "none") =>
                   jobs'[j].status = "queued" /\ items'[j].state = "none"
             /\ (items[j].state = "none" /\ items'[j].state # "none") =>
                   jobs[j].status = "queued" /\ items'[j].state = "waiting"]_vars

\* A submission has been answered and its work item waits for its first delivery.
C15_Witness ==
    \E j \in JobIds :
        /\ jobs[j].status = "queued"
        /\ items[j].state = "waiting"
        /\ items[j].delivered = 0
        /\ responses[RequestOf(j)] = Some([id |-> j, status |-> "queued"])

\* A step that answers a request without a createJob of its own having
\* succeeded: createJob has raised.
RejectedStep(q) == responses'[q] # responses[q] /\ pending' = pending

\* C16: createJob raises a conflict when its cvId or its reportId belongs to
\* an existing Job; then no Job is created and the tables are left as they
\* were; no document id is referenced by two Jobs.
C16_UniqueDocuments ==
    /\ [](\A j, k \in JobIds :
            (j # k /\ JobExists(jobs, j) /\ JobExists(jobs, k)) =>
                jobs[j].cvId # jobs[k].cvId /\ jobs[j].reportId # jobs[k].reportId)
    /\ [][\A q \in Requests :
             /\ RejectedStep(q) =>
                   jobs' = jobs /\ results' = results /\ items' = items
             /\ (RejectedStep(q) /\ \E j \in JobIds :
                    JobExists(jobs, j) /\ (jobs[j].cvId = q[1] \/ jobs[j].reportId = q[2]))
                   => responses'[q] = Some([error |-> ErrConflict])]_vars
    /\ [][\A j \in JobIds :
             /\ JobExists(jobs, j) => jobs'[j] = jobs[j]
             /\ (~JobExists(jobs, j) /\ JobExists(jobs', j)) =>
                   \A k \in JobIds :
                       JobExists(jobs, k) =>
                           /\ jobs[k].cvId # jobs'[j].cvId
                           /\ jobs[k].reportId # jobs'[j].reportId]_vars

\* A request naming the report of an existing Job, with another CV, has been
\* answered with the conflict error.
C16_Witness ==
    \E q \in Requests, j \in JobIds :
        /\ JobExists(jobs, j)
        /\ jobs[j].reportId = q[2]
        /\ jobs[j].cvId # q[1]
        /\ responses[q] = Some([error |-> ErrConflict])

\* The Result row that a completion save of data writes.
FullRow(data) ==
    [exists |-> TRUE,
     cvMatchRate |-> Some(data.cvMatchRate),
     cvFeedback |-> Some(data.cvFeedback),
     projectScore |-> Some(data.projectScore),
     projectFeedback |-> Some(data.projectFeedback),
     overallSummary |-> Some(data.overallSummary)]

\* saveEvaluationResult called with data on tables js, rs, both writes accepted.
SavedOnce(js, rs, jobId, data) == SaveEvaluationResult(js, rs, jobId, data, "ok")

\* C17: saving the same data twice for a jobId leaves one Result row, and the
\* tables after the second call are those after the first: wherever a run is
\* about to save, a second call on the outcome of the first changes nothing;
\* and a save that finds the job completed with this very row changes nothing.
C17_SaveIdempotent ==
    /\ [](\A w \in Workers :
            worker[w].pc = "save" =>
                LET j == worker[w].jobId
                    d == worker[w].final
                    first == SavedOnce(jobs, results, j, d)
                    second == SavedOnce(first.jobs, first.results, j, d)
                IN  /\ first.ok /\ second.ok
                    /\ second.jobs = first.jobs
                    /\ second.results = first.results
                    /\ second.results[j] = FullRow(d)
                    /\ second.jobs[j].status = "completed")
    /\ [][\A w \in Workers :
             (/\ SaveStep(w) /\ worker'[w].pc = "returned"
              /\ jobs[worker[w].jobId].status = "completed"
              /\ results[worker[w].jobId] = FullRow(worker[w].final))
                 => jobs' = jobs /\ results' = results]_vars

\* One run has saved and returned; another run of the same job is about to
\* save the same data.
C17_Witness ==
    \E w, v \in Workers :
        /\ w # v
        /\ worker[w].pc = "returned"
        /\ worker[v].pc = "save"
        /\ worker[v].jobId = worker[w].jobId
        /\ jobs[worker[v].jobId].status = "completed"
        /\ results[worker[v].jobId] = FullRow(worker[v].final)

\* C18: a second delivery of a work item, whether after or alongside the
\* first, leaves the store as one delivery would: a job that one delivery
\* completed stays completed, with its fully populated Result and no error
\* text in it, whatever the other delivery does.
C18_DoubleDeliverySafe ==
    [][\A j \in JobIds :
          (jobs[j].status = "completed" /\ items[j].delivered >= 2) =>
              /\ jobs'[j].status = "completed"
              /\ FullResult(results'[j])
              /\ \A e \in ErrorMessages : results'[j].overallSummary # Some(e)]_vars

\* What runAIPipeline makes of the outcomes in, for the job of worker w.
RunOf(w, in) ==
    RunStages(jobs, worker[w].jobId, in.extractOk, in.cvRag, in.cvApi,
              in.reportRag, in.reportApi, in.summaryApi)

\* C19: an answer to a scoring prompt that is not JSON gives that stage score 0
\* and the parse diagnostic as feedback; the run is not aborted, the summary
\* stage is called, and the save of that result completes the job.
C19_NotJsonFallback ==
    /\ [](\A w \in Workers :
            worker[w].pc = "pipeline" =>
                \A in \in ParseInputs :
                    /\ in.cvApi = NotJson =>
                          /\ RunOf(w, in).err = ErrNone
                          /\ RunOf(w, in).final.cvMatchRate = 0
                          /\ RunOf(w, in).final.cvFeedback = ParseFailedFeedback
                          /\ in.summaryApi \in RunOf(w, in).calls
                          /\ RunOf(w, in).final.overallSummary
                                = SummaryOf(GenerateEvaluation(in.summaryApi))
                    /\ in.reportApi = NotJson =>
                          /\ RunOf(w, in).err = ErrNone
                          /\ RunOf(w, in).final.projectScore = 0
                          /\ RunOf(w, in).final.projectFeedback = ParseFailedFeedback
                          /\ in.summaryApi \in RunOf(w, in).calls
                          /\ RunOf(w, in).final.overallSummary
                                = SummaryOf(GenerateEvaluation(in.summaryApi)))
    /\ [][\A w \in Workers :
             (/\ SaveStep(w) /\ worker'[w].pc = "returned"
              /\ ParseFailedFeedback \in
                    {worker[w].final.cvFeedback, worker[w].final.projectFeedback})
                 => /\ jobs'[worker[w].jobId].status = "completed"
                    /\ results'[worker[w].jobId] = FullRow(worker[w].final)]_vars

\* A job is completed with the fallback of an unparseable CV answer and the
\* summary the generator gave.
C19_Witness ==
    \E j \in JobIds :
        /\ jobs[j].status = "completed"
        /\ results[j].cvMatchRate = Some(0)
        /\ results[j].cvFeedback = Some(ParseFailedFeedback)
        /\ results[j].overallSummary = Some(SummaryText)

\* Whether the text parses as a JSON object with a field of the wrong type.
WrongType(text) ==
    /\ text # "raise"
    /\ JsonParse(StripFences(text)) # Null
    /\ \/ JsonParse(StripFences(text))[1].score.type # "number"
       \/ JsonParse(StripFences(text))[1].feedback.type # "string"

Diagnostics == {NoResponseFeedback, ParseFailedFeedback, NoFeedbackProvided}

\* C20 as stated: a JSON answer with a field of the wrong type is replaced as a
\* whole by the fallback: score 0 and a diagnostic feedback.
C20_WrongTypeWholeFallback ==
    \A w \in Workers :
        worker[w].pc = "pipeline" =>
            \A in \in ParseInputs :
                /\ WrongType(in.cvApi) =>
                      /\ RunOf(w, in).final.cvMatchRate = 0
                      /\ RunOf(w, in).final.cvFeedback \in Diagnostics
                /\ WrongType(in.reportApi) =>
                      /\ RunOf(w, in).final.projectScore = 0
                      /\ RunOf(w, in).final.projectFeedback \in Diagnostics

\* C20 amended: each field is replaced on its own. A score that is not a
\* number becomes 0 and a feedback that is a string is kept; a feedback that
\* is not a string becomes 'No feedback provided.' and a score that is a
\* number is kept; the run is not aborted.
C20_WrongTypePerField ==
    \A w \in Workers :
        worker[w].pc = "pipeline" =>
            \A in \in ParseInputs :
                /\ RunOf(w, in).err = ErrNone
                /\ in.cvApi = ScoreAsString =>
                      /\ RunOf(w, in).final.cvMatchRate = 0
                      /\ RunOf(w, in).final.cvFeedback = "cv ok"
                /\ in.cvApi = FeedbackAsNumber =>
                      /\ RunOf(w, in).final.cvMatchRate = 8
                      /\ RunOf(w, in).final.cvFeedback = NoFeedbackProvided
                /\ in.cvApi = BothWrongType =>
                      /\ RunOf(w, in).final.cvMatchRate = 0
                      /\ RunOf(w, in).final.cvFeedback = NoFeedbackProvided
                /\ in.reportApi = ScoreAsString =>
                      /\ RunOf(w, in).final.projectScore = 0
                      /\ RunOf(w, in).final.projectFeedback = "cv ok"
                /\ in.reportApi = FeedbackAsNumber =>
                      /\ RunOf(w, in).final.projectScore = 8
                      /\ RunOf(w, in).final.projectFeedback = NoFeedbackProvided
                /\ in.reportApi = BothWrongType =>
                      /\ RunOf(w, in).final.projectScore = 0
                      /\ RunOf(w, in).final.projectFeedback = NoFeedbackProvided

\* A job is completed with the score of an answer whose feedback was a number.
C20_Witness ==
    \E j \in JobIds :
        /\ jobs[j].status = "completed"
        /\ results[j].cvMatchRate = Some(8)
        /\ results[j].cvFeedback = Some(NoFeedbackProvided)

\* The ranges the prompts ask the scores to be in (in tenths).
CvScoreRange == 0..10
ProjectScoreRange == 10..50

\* C21: the Result of a completed job has cvMatchRate within [0,1] and
\* projectScore within [1,5], whatever the generator answered.
C21_ScoresInRange ==
    \A j \in JobIds :
        (jobs[j].status = "completed" /\ FullResult(results[j])) =>
            /\ results[j].cvMatchRate[1] \in CvScoreRange
            /\ results[j].projectScore[1] \in ProjectScoreRange

\* The Result of the sample answers CvJson, ReportJson and SummaryText.
WellFormedFinal ==
    [cvMatchRate |-> 8, cvFeedback |-> "cv ok",
     projectScore |-> 40, projectFeedback |-> "report ok",
     overallSummary |-> "summary text"]

\* C22: when both scoring answers are well-formed JSON and the summary answer
\* is text, the run builds the Result from the CV score and feedback, the
\* report score and feedback and the summary, each in its own field, and
\* its save persists that Result and marks the job completed.
C22_WellFormedPersisted ==
    /\ [](\A w \in Workers :
            worker[w].pc = "pipeline" =>
                \A in \in ParseInputs :
                    (/\ in.cvApi \in {CvJson, FencedCvJson}
                     /\ in.reportApi = ReportJson
                     /\ in.summaryApi = SummaryText)
                        => /\ RunOf(w, in).err = ErrNone
                           /\ RunOf(w, in).final = WellFormedFinal)
    /\ [][\A w \in Workers :
             (SaveStep(w) /\ worker'[w].pc = "returned" /\ worker[w].final = WellFormedFinal)
                 => /\ jobs'[worker[w].jobId].status = "completed"
                    /\ results'[worker[w].jobId] =
                          [exists |-> TRUE,
                           cvMatchRate |-> Some(8), cvFeedback |-> Some("cv ok"),
                           projectScore |-> Some(40),
                           projectFeedback |-> Some("report ok"),
                           overallSummary |-> Some("summary text")]]_vars

\* A job is completed with the Result of the well-formed answers.
C22_Witness ==
    \E j \in JobIds :
        /\ jobs[j].status = "completed"
        /\ results[j].cvMatchRate = Some(8)
        /\ results[j].cvFeedback = Some("cv ok")
        /\ results[j].projectScore = Some(40)
        /\ results[j].projectFeedback = Some("report ok")
        /\ results[j].overallSummary = Some("summary text")

\* A Result row with some of its score and feedback fields set and not all.
PartialResult(r) ==
    /\ r.exists
    /\ ~FullResult(r)
    /\ \/ r.cvMatchRate # Null \/ r.cvFeedback # Null
       \/ r.projectScore # Null \/ r.projectFeedback # Null

\* A step of worker w inside runAIPipeline.
OrchestratorStep(w) ==
    worker[w].pc \in {"pipeline", "save"} /\ worker'[w].pc # worker[w].pc

\* C23: runAIPipeline persists a complete Result in one transaction or raises
\* having written nothing: its only step that writes is the accepted save,
\* which writes all five fields; every other step, and every step that ends
\* in an error, leaves the Job and Result tables as they are; no Result row
\* is ever partly filled.
C23_AllOrNothing ==
    /\ [](\A j \in JobIds : ~PartialResult(results[j]))
    /\ [][\A w \in Workers :
             OrchestratorStep(w) =>
                \/ /\ worker'[w].pc = "returned"
                   /\ FullResult(results'[worker[w].jobId])
                   /\ results'[worker[w].jobId].overallSummary # Null
                   /\ jobs'[worker[w].jobId].status = "completed"
                \/ /\ worker'[w].pc \in {"save", "catch"}
                   /\ worker'[w].pc = "catch" => worker'[w].err # ErrNone
                   /\ jobs' = jobs
                   /\ results' = results]_vars

\* A run has raised after the CV stage, and its job has no Result row.
C23_Witness ==
    \E w \in Workers :
        /\ worker[w].pc = "catch"
        /\ worker[w].err \in {ErrQueryVector, ErrSearch}
        /\ gen[worker[w].jobId] # "nocall"
        /\ jobs[worker[w].jobId].status = "processing"
        /\ ~results[worker[w].jobId].exists

\* C24: when the embedding of the query fails, queryForContext raises and
\* returns no context; the run ends there with that error, builds no Result,
\* and writes nothing.
C24_EmbeddingFailureAborts ==
    /\ [](\A w \in Workers :
            worker[w].pc = "pipeline" =>
                /\ RetrieveContext("embedFail").err = ErrQueryVector
                /\ RetrieveContext("embedFail").context = Null
                /\ \A in \in PipelineInputs :
                      (/\ GetJobById(jobs, worker[w].jobId) = ErrNone
                       /\ in.extractOk
                       /\ "embedFail" \in {in.cvRag, in.reportRag}) =>
                          /\ RunOf(w, in).err = ErrQueryVector
                          /\ RunOf(w, in).final = NoFinal
                          /\ RunOf(w, in).calls \subseteq {in.cvApi})
    /\ [][\A w \in Workers :
             (worker[w].pc = "pipeline" /\ worker'[w].pc # "pipeline"
              /\ worker'[w].err = ErrQueryVector)
                 => /\ worker'[w].pc = "catch"
                    /\ worker'[w].final = NoFinal
                    /\ jobs' = jobs
                    /\ results' = results]_vars

\* A run has been aborted by a failed query embedding; its job is processing
\* and no scores are stored.
C24_Witness ==
    \E w \in Workers :
        /\ worker[w].pc = "catch"
        /\ worker[w].err = ErrQueryVector
        /\ jobs[worker[w].jobId].status = "processing"
        /\ results[worker[w].jobId].cvMatchRate = Null
        /\ results[worker[w].jobId].projectScore = Null

\* C25: when ingestion starts against a collection that exists, holds points
\* and has the expected vector size, no process ever calls recreateCollection
\* or upsert, and the collection stays as it was.
C25_PopulatedCollectionUntouched ==
    (collection = PopulatedCollection) =>
        [](/\ collection = PopulatedCollection
           /\ \A p \in Procs : ~ingest[p].recreated /\ ingest[p].upserts = 0)

\* Every process has run the routine to its skip exit against the populated
\* collection.
C25_Witness ==
    /\ collection = PopulatedCollection
    /\ \A p \in Procs :
          /\ ingest[p].pc = "done"
          /\ ingest[p].outcome = "skipped"
          /\ ingest[p].pointsCount = CountPoints(PopulatedCollection)
          /\ ~ingest[p].recreated
          /\ ingest[p].upserts = 0

\* C26: when several processes run the ingestion, at most one of them
\* recreates the collection, no recreation discards points of the expected
\* size that another process has inserted, and no chunk is held twice.
C26_GuardedRecreation ==
    /\ Cardinality({p \in Procs : ingest[p].recreated}) <= 1
    /\ \A p \in Procs :
          (ingest[p].pc = "recreate" /\ collection.size = GEMINI_VECTOR_SIZE)
              => collection.points = NoPoints
    /\ \A c \in Chunks : collection.points[c] <= 1

\* C27: an attempt whose write of status processing fails ends raised, so
\* that the queue re-attempts the item, and no step takes a Job from queued
\* to failed.
C27_ProcessingWriteFailure ==
    [][/\ \A j \in JobIds :
             jobs[j].status = "queued" => jobs'[j].status # "failed"
       /\ \A w \in Workers :
             (worker[w].pc = "catch" /\ jobs[worker[w].jobId].status = "queued"
              /\ worker'[w].pc # "catch")
                 => worker'[w].pc = "raised"]_vars

\* C28: within one attempt the stages run in the order load, extract, the two
\* evaluations, summary, persist: the summary is asked for only when both
\* evaluations have produced their outputs, and the save starts only when
\* the summary has returned; taken together the stages give the result of
\* runAIPipeline.
C28_StageOrder ==
    /\ [][\A w \in Workers :
             LET from == worker[w].pc
                 to == worker'[w].pc IN
             /\ (to = "extract" /\ from # to) => from = "pipeline"
             /\ (to \in {"cvEval", "reportEval"} /\ from # to)
                    => from \in {"extract", "cvEval", "reportEval"}
             /\ (to = "summary" /\ from # to)
                    => /\ from \in {"cvEval", "reportEval"}
                       /\ worker'[w].final.cvFeedback # ""
                       /\ worker'[w].final.projectFeedback # ""
                       /\ worker'[w].final.overallSummary = ""
             /\ (to = "save" /\ from # to)
                    => /\ from = "summary"
                       /\ worker'[w].final.overallSummary # ""
                       /\ \E in \in ParseInputs :
                             /\ RunOf(w, in).err = ErrNone
                             /\ RunOf(w, in).final = worker'[w].final]_vars
    /\ [][\A j \in JobIds :
             (results'[j] # results[j] /\ FullResult(results'[j]))
                 => \E w \in Workers :
                       /\ worker[w].pc = "save"
                       /\ worker[w].jobId = j
                       /\ results'[j] = FullRow(worker[w].final)]_vars

\* An attempt has gone through every stage and its result has been saved.
C28_Witness ==
    \E w \in Workers :
        /\ worker[w].pc = "returned"
        /\ jobs[worker[w].jobId].status = "completed"
        /\ FullResult(results[worker[w].jobId])
        /\ results[worker[w].jobId].overallSummary = Some(SummaryText)

\* C29: a retry runs the whole protocol again: it writes status processing
\* and enters the pipeline with nothing kept from the earlier attempt; and
\* when its save succeeds the Job and its Result are what the same save
\* gives on a store that the failed attempt never wrote to.
C29_RetryFromScratch ==
    /\ [][\A w \in Workers :
             (/\ worker[w].pc = "process"
              /\ worker'[w].pc = "pipeline"
              /\ items[worker[w].item].attemptsMade >= 1)
                 => /\ jobs'[worker'[w].jobId].status = "processing"
                    /\ worker'[w].final = NoFinal
                    /\ worker'[w].err = ErrNone]_vars
    /\ [][\A w \in Workers :
             (/\ worker[w].pc = "save"
              /\ worker'[w].pc = "returned"
              /\ items[worker[w].item].attemptsMade >= 1)
                 => LET j == worker[w].jobId
                        clean == SaveEvaluationResult(
                                     [jobs EXCEPT ![j].status = "processing"],
                                     [results EXCEPT ![j] = NoResult],
                                     j, worker[w].final, "ok") IN
                    /\ jobs'[j] = clean.jobs[j]
                    /\ results'[j] = clean.results[j]]_vars

\* A retry has succeeded: the item has failed before, the Job is completed
\* and its Result holds scores and a summary, not the earlier error text.
C29_Witness ==
    \E w \in Workers :
        /\ worker[w].pc = "returned"
        /\ items[worker[w].item].attemptsMade >= 1
        /\ jobs[worker[w].jobId].status = "completed"
        /\ FullResult(results[worker[w].jobId])
        /\ results[worker[w].jobId].overallSummary \notin {Some(e) : e \in ErrorMessages}

\* The work items a worker holds the lock of.
ActiveItems(w) == {i \in Items : items[i].state = "active" /\ items[i].lock = w}

\* C30: a worker runs one work item at a time: it never holds two active
\* items, the item it holds is the one it is processing, and it is handed an
\* item only when its previous call of process() has returned or raised and
\* the queue has recorded that.
C30_OneItemPerWorker ==
    /\ [](\A w \in Workers :
            /\ Cardinality(ActiveItems(w)) <= 1
            /\ \A i \in ActiveItems(w) : worker[w].pc # "idle" /\ worker[w].item = i)
    /\ [][\A w \in Workers, i \in Items :
             (items'[i].lock = w /\ items[i].lock # w)
                 => /\ worker[w].pc = "idle"
                    /\ ActiveItems(w) = {}
                    /\ worker'[w].pc = "process"]_vars

\* A worker is inside the pipeline of one item while another item waits.
C30_Witness ==
    \E w \in Workers, i1 \in Items, i2 \in Items :
        /\ i1 # i2
        /\ worker[w].pc = "pipeline"
        /\ worker[w].item = i1
        /\ ActiveItems(w) = {i1}
        /\ items[i2].state = "waiting"

\* C31: the summary answer is taken as raw text, never parsed; when the
\* generator gives no answer the run is not aborted, overallSummary is the
\* fixed fallback string, and the save of that result completes the job.
C31_SummaryFallback ==
    /\ [](\A w \in Workers :
            worker[w].pc = "pipeline" =>
                \A in \in ParseInputs :
                    /\ RunOf(w, in).err = ErrNone
                    /\ in.summaryApi = "raise"
                          => RunOf(w, in).final.overallSummary = SummaryFallback
                    /\ in.summaryApi # "raise"
                          => RunOf(w, in).final.overallSummary = in.summaryApi)
    /\ [][\A w \in Workers :
             (/\ SaveStep(w) /\ worker'[w].pc = "returned"
              /\ worker[w].final.overallSummary = SummaryFallback)
                 => /\ jobs'[worker[w].jobId].status = "completed"
                    /\ results'[worker[w].jobId].overallSummary
                          = Some(SummaryFallback)]_vars

\* A job is completed with the scores of its run and the fallback summary.
C31_Witness ==
    \E j \in JobIds :
        /\ jobs[j].status = "completed"
        /\ results[j].cvMatchRate = Some(8)
        /\ results[j].projectScore = Some(40)
        /\ results[j].overallSummary = Some(SummaryFallback)

\* A step in which extractTextFromPdfs raises.
ExtractionRaises(w) == worker[w].pc = "extract" /\ worker'[w].pc = "catch"

\* C32 as stated: the error with which a failed extraction aborts the run is
\* the error of the file read or of the parser.
C32_OriginalError ==
    [][\A w \in Workers :
          ExtractionRaises(w) => worker'[w].err \in ExtractErrors]_vars

\* C32, amended: a failed extraction aborts the run with a new error whose
\* message is "Failed to parse PDF files: " followed by the message of the
\* read or parser error; the catch block of the consumer stores that message
\* as overallSummary and re-throws that error, unless its own write fails.
C32_WrappedError ==
    /\ [][\A w \in Workers :
             ExtractionRaises(w) =>
                 /\ \E e \in ExtractErrors :
                       worker'[w].err = "Failed to parse PDF files: " \o e
                 /\ worker'[w].final = NoFinal
                 /\ jobs' = jobs /\ results' = results]_vars
    /\ [][\A w \in Workers :
             (/\ worker[w].pc = "catch" /\ worker'[w].pc = "raised"
              /\ \E e \in ExtractErrors :
                    worker[w].err = "Failed to parse PDF files: " \o e)
                 => LET j == worker[w].jobId IN
                    \/ /\ worker'[w].thrown = worker[w].err
                       /\ jobs'[j].status = "failed"
                       /\ results'[j].overallSummary = Some(worker[w].err)
                    \/ /\ worker'[w].thrown = ErrDb
                       /\ jobs' = jobs /\ results' = results]_vars

\* An attempt has ended with the error of an extraction whose file read
\* failed; the job is failed and holds the message.
C32_Witness ==
    \E w \in Workers :
        /\ worker[w].pc = "raised"
        /\ worker[w].thrown = "Failed to parse PDF files: " \o ErrReadFile
        /\ jobs[worker[w].jobId].status = "failed"
        /\ results[worker[w].jobId].overallSummary = Some(worker[w].thrown)

\* The queue will not hand the item out again.
Settled(i) == items[i].state \in {"removed", "completed", "failed"}

\* C33: every work item enqueued for a Job eventually stops being attempted,
\* and from then on the Job is completed or failed.
C33_EventuallyTerminal ==
    \A i \in JobIds :
        (items[i].state = "waiting")
            ~> (Settled(i) /\ jobs[i].status \in {"completed", "failed"})

\* C34: a Job with status queued has its work item in the queue, or its
\* submission is still between createJob and evaluationQueue.add.
C34_QueuedJobHasWorkItem ==
    \A j \in JobIds :
        jobs[j].status = "queued" => (j \in pending \/ items[j].state # "none")

\* C35: when createJob raises, createEvaluationJob ends there: the request is
\* answered with that error, no work item is added and the queue is as it
\* was; so the queue never holds more items than there are Jobs.
C35_RejectedEnqueuesNothing ==
    /\ [][\A q \in Requests :
             RejectedStep(q) =>
                 /\ items' = items
                 /\ pending' = pending
                 /\ responses'[q] \in {Some([error |-> ErrConflict]),
                                       Some([error |-> ErrForeignKey])}]_vars
    /\ [](Cardinality({i \in Items : items[i].state # "none"}) + Cardinality(pending)
             <= Cardinality({j \in JobIds : JobExists(jobs, j)}))

\* A resubmission of the CV of an enqueued Job has been refused, and the
\* queue holds that Job's item and no other.
C35_Witness ==
    \E q \in Requests, j \in JobIds :
        /\ JobExists(jobs, j)
        /\ jobs[j].cvId = q[1]
        /\ responses[q] = Some([error |-> ErrConflict])
        /\ items[j].state = "waiting"
        /\ \A i \in Items \ {j} : items[i].state = "none"
        /\ pending = {}

\* Whether process() rejects the work item before its try block.
RejectedItem(it) == InvalidData(it.data) \/ it.name # EVALUATION_JOB_NAME

\* C36: a delivery of a work item without a jobId, or with another job name,
\* ends by raising without any write: every Job and every Result row is as
\* it was before.
C36_RejectionWritesNothing ==
    [][\A w \in Workers :
          (/\ worker[w].pc = "process" /\ worker'[w].pc # "process"
           /\ RejectedItem(items[worker[w].item]))
              => /\ worker'[w].pc = "raised"
                 /\ worker'[w].thrown \in {ErrInvalidData, ErrUnknownName}
                 /\ jobs' = jobs
                 /\ results' = results]_vars

\* A work item naming an existing Job under another job name has been
\* rejected; the Job is still queued and has no Result.
C36_Witness ==
    \E w \in Workers :
        /\ worker[w].pc = "raised"
        /\ worker[w].thrown = ErrUnknownName
        /\ JobExists(jobs, worker[w].jobId)
        /\ jobs[worker[w].jobId].status = "queued"
        /\ ~results[worker[w].jobId].exists

\* The fields of a Result row that hold the message of an error.
ErrorFields(r) ==
    {f \in {"cvFeedback", "projectFeedback", "overallSummary"} :
        \E e \in ErrorMessages : r[f] = Some(e)}

\* C37: when an attempt succeeds after failed ones, every field of the Result
\* comes from the successful run: overallSummary is that run's summary, and
\* the error message an earlier attempt stored is in no field; a completed
\* Job never shows an error message.
C37_RetryOverwritesError ==
    /\ [][\A w \in Workers :
             (/\ SaveStep(w) /\ worker'[w].pc = "returned"
              /\ ErrorFields(results[worker[w].jobId]) # {})
                 => LET r == results'[worker[w].jobId] IN
                    /\ r.cvMatchRate = Some(worker[w].final.cvMatchRate)
                    /\ r.cvFeedback = Some(worker[w].final.cvFeedback)
                    /\ r.projectScore = Some(worker[w].final.projectScore)
                    /\ r.projectFeedback = Some(worker[w].final.projectFeedback)
                    /\ r.overallSummary = Some(worker[w].final.overallSummary)
                    /\ r.overallSummary \in {Some(SummaryText), Some(SummaryFallback)}
                    /\ ErrorFields(r) = {}]_vars
    /\ [](\A j \in JobIds :
            jobs[j].status = "completed" => ErrorFields(results[j]) = {})

\* The third attempt of an item has succeeded: the Job is completed and its
\* Result holds the scores and the summary of that run.
C37_Witness ==
    \E w \in Workers :
        /\ worker[w].pc = "returned"
        /\ items[worker[w].item].attemptsMade = 2
        /\ jobs[worker[w].jobId].status = "completed"
        /\ results[worker[w].jobId].cvMatchRate = Some(8)
        /\ results[worker[w].jobId].projectScore = Some(40)
        /\ results[worker[w].jobId].overallSummary = Some(SummaryText)

\* C38: a Job has at most one Result row, and the row comes into being only
\* in a write that marks the Job failed or completed: a Job that is queued,
\* or processing in the only delivery its item has had, has no Result.
C38_ResultOnlyAfterOutcome ==
    /\ [](\A j \in JobIds :
            /\ jobs[j].status \in {"none", "queued"} => ~results[j].exists
            /\ (/\ jobs[j].status = "processing"
                /\ items[j].delivered = 1
                /\ items[j].attemptsMade = 0) => ~results[j].exists)
    /\ [][\A j \in JobIds :
             /\ (~results[j].exists /\ results'[j].exists)
                    => jobs'[j].status \in {"failed", "completed"}
             /\ results[j].exists => results'[j].exists]_vars

\* A Job is processing in a later attempt and has the Result row that its
\* failed attempt wrote.
C38_Witness ==
    \E w \in Workers :
        /\ worker[w].pc = "pipeline"
        /\ items[worker[w].item].attemptsMade >= 1
        /\ jobs[worker[w].jobId].status = "processing"
        /\ ErrorOnlyResult(results[worker[w].jobId])

\* The statuses and messages updateJobStatus is called with.
WrittenStatuses == {"processing", "completed", "failed"}
WrittenMessages == {Null} \cup {Some(e) : e \in ErrorMessages}

C40_SkippedMeansComplete ==
    (\E p \in Procs : ingest[p].pc = "done" /\ ingest[p].outcome = "skipped")
        => \A c \in Chunks : collection.points[c] >= 1

====
